---- MODULE Spec2Model ----
(***************************************************************************)
(* pyTempNet: time-stamped edge store, extraction of time-respecting paths *)
(* of length two and the first- and second-order aggregate graphs          *)
(* (src/pyTempNet/TemporalNetwork.py).                                     *)
(*                                                                         *)
(* Weights are Python floats (IEEE-754 binary64).  A float is modelled as  *)
(* [e, m]: m is the MantBits-bit significand, most significant bit first   *)
(* (m[1] = 1), and the value is 1.m[2]m[3]... * 2^e.  Division and         *)
(* addition round to nearest, ties to even, as the hardware does.          *)
(***************************************************************************)
EXTENDS Integers, Sequences, FiniteSets, TLC

\* ------------------------------------------------------------------ bounds
\* the longest edge list of a store
MaxEdges == 3
\* timestamps are 1..MaxTime
MaxTime == 3
\* the windows tried are 1..MaxDelta
MaxDelta == 2
\* the longest edge list whose insertion orders are compared
MaxReorder == 6
\* the largest length asked of ShuffleEdges
MaxShuffle == 3
\* the largest number of two-paths asked of ShuffleTwoPaths
MaxDraws == 2
\* the largest order of an aggregate network
MaxOrder == 3
\* the longest edge list a null model is built from
MaxNull == 5

\* ------------------------------------------------------- IEEE-754 binary64
MantBits == 53

RECURSIVE Zeros(_)
Zeros(n) == IF n <= 0 THEN <<>> ELSE <<0>> \o Zeros(n - 1)

RECURSIVE Pow2(_)
Pow2(k) == IF k <= 0 THEN 1 ELSE 2 * Pow2(k - 1)

\* the least k with 2^k >= n
RECURSIVE CeilLog2From(_, _)
CeilLog2From(n, k) == IF Pow2(k) >= n THEN k ELSE CeilLog2From(n, k + 1)

\* cnt quotient bits of rem/n (rem < n), most significant first
RECURSIVE LongDiv(_, _, _)
LongDiv(rem, n, cnt) ==
    IF cnt = 0 THEN <<>>
    ELSE IF 2 * rem >= n THEN <<1>> \o LongDiv(2 * rem - n, n, cnt - 1)
         ELSE <<0>> \o LongDiv(2 * rem, n, cnt - 1)

\* the remainder left after cnt quotient bits
RECURSIVE LongDivRem(_, _, _)
LongDivRem(rem, n, cnt) ==
    IF cnt = 0 THEN rem
    ELSE IF 2 * rem >= n THEN LongDivRem(2 * rem - n, n, cnt - 1)
         ELSE LongDivRem(2 * rem, n, cnt - 1)

\* a + b for two bit strings of length i, as a bit string one longer (the carry
\* out is its first bit)
RECURSIVE AddBits(_, _, _, _)
AddBits(a, b, i, carry) ==
    IF i = 0 THEN <<carry>>
    ELSE IF a[i] + b[i] + carry >= 2
         THEN AddBits(a, b, i - 1, 1) \o <<(a[i] + b[i] + carry) % 2>>
         ELSE AddBits(a, b, i - 1, 0) \o <<a[i] + b[i] + carry>>

HasOne(bits) == \E i \in 1..Len(bits) : bits[i] = 1

\* round a normalised bit string (bits[1] = 1, at least MantBits long, `sticky`
\* telling whether non-zero bits follow it) to MantBits bits: nearest, ties to even
RoundNearestEven(bits, sticky, e) ==
    LET keep   == SubSeq(bits, 1, MantBits)
        rest   == SubSeq(bits, MantBits + 1, Len(bits))
        guard  == IF Len(rest) >= 1 THEN rest[1] ELSE 0
        more   == sticky \/ (Len(rest) >= 2 /\ HasOne(Tail(rest)))
        up     == guard = 1 /\ (more \/ keep[MantBits] = 1)
        inc    == AddBits(keep, Zeros(MantBits - 1) \o <<1>>, MantBits, 0)
    IN  IF ~up THEN [e |-> e, m |-> keep]
        ELSE IF inc[1] = 1 THEN [e |-> e + 1, m |-> SubSeq(inc, 1, MantBits)]
        ELSE [e |-> e, m |-> Tail(inc)]

\* float(1)/n for an integer n >= 1, by long division
FRecipOf(n) ==
    LET k    == CeilLog2From(n, 0)
        rem  == Pow2(k) - n
        bits == <<1>> \o LongDiv(rem, n, MantBits)
    IN  RoundNearestEven(bits, LongDivRem(rem, n, MantBits) # 0, 0 - k)

\* the quotients the model needs, computed once: n is a product of two degrees
FRecipTable == [n \in 1..(MaxReorder * MaxReorder) |-> FRecipOf(n)]

FRecip(n) == FRecipTable[n]

\* x + y for two positive floats
FAdd(x, y) ==
    LET hi == IF x.e >= y.e THEN x ELSE y
        lo == IF x.e >= y.e THEN y ELSE x
        d  == hi.e - lo.e
    IN  IF d > MantBits + 1 THEN hi
        ELSE LET a == hi.m \o Zeros(d)
                 b == Zeros(d) \o lo.m
                 s == AddBits(a, b, MantBits + d, 0)
             IN  IF s[1] = 1 THEN RoundNearestEven(s, FALSE, hi.e + 1)
                 ELSE RoundNearestEven(Tail(s), FALSE, hi.e)

FOne == [e |-> 0, m |-> <<1>> \o Zeros(MantBits - 1)]
FTwo == [e |-> 1, m |-> <<1>> \o Zeros(MantBits - 1)]

\* --------------------------------------------------------------- node names
\* A node name is a string, modelled as its sequence of characters, so that the
\* names of second-order vertices can be built by concatenation as the code does.
NodeA == <<"A">>
NodeB == <<"B">>
NodeC == <<"C">>
NodeD == <<"D">>
\* a legal name that holds the separator character
NodeAA == <<"A", ";", "A">>

\* str(x) + ";" + str(y)
JoinNames(x, y) == x \o <<";">> \o y

\* --------------------------------------------------------------- helpers
Range(s) == {s[i] : i \in 1..Len(s)}

RECURSIVE Flatten(_)
Flatten(ss) == IF Len(ss) = 0 THEN <<>> ELSE Head(ss) \o Flatten(Tail(ss))

\* all sequences over S of length at most n
RECURSIVE SeqsUpTo(_, _)
SeqsUpTo(S, n) ==
    IF n = 0 THEN {<<>>}
    ELSE LET shorter == SeqsUpTo(S, n - 1)
         IN  shorter \cup {Append(q, x) : q \in {r \in shorter : Len(r) = n - 1}, x \in S}

\* `x not in list: list.append(x)`
AppendNew(list, x) == IF x \in Range(list) THEN list ELSE Append(list, x)

\* the node list after the edges es[i..] were seen, in order of first appearance
RECURSIVE NodesOf(_, _, _)
NodesOf(es, i, acc) ==
    IF i > Len(es) THEN acc
    ELSE NodesOf(es, i + 1, AppendNew(AppendNew(acc, es[i][1]), es[i][2]))

\* np.sort(list(time.keys())): the distinct timestamps, ascending
RECURSIVE SortSet(_)
SortSet(S) ==
    IF S = {} THEN <<>>
    ELSE LET m == CHOOSE x \in S : \A y \in S : x <= y
         IN  <<m>> \o SortSet(S \ {m})

OrderedTimes(es) == SortSet({es[i][3] : i \in 1..Len(es)})

\* the index structures of extractTwoPaths
EdgesAt(es, ts) == SelectSeq(es, LAMBDA e : e[3] = ts)

\* a faulty index: the incoming edges of v at any time
TargetsAnyTime(es, ts, v) == SelectSeq(es, LAMBDA e : e[2] = v)

TargetsAt(es, ts, v) == SelectSeq(es, LAMBDA e : e[3] = ts /\ e[2] = v)

SourcesAt(es, ts, v) == SelectSeq(es, LAMBDA e : e[3] = ts /\ e[1] = v)

\* the keys of targets[ts], in insertion order
RECURSIVE TargetKeysFrom(_, _, _)
TargetKeysFrom(at, i, acc) ==
    IF i > Len(at) THEN acc ELSE TargetKeysFrom(at, i + 1, AppendNew(acc, at[i][2]))

TargetKeys(es, ts) == TargetKeysFrom(EdgesAt(es, ts), 1, <<>>)

\* --------------------------------------------------------- extractTwoPaths
\* a faulty weight: the unit is split among the outgoing edges only
WeightPerOutEdge(indeg_v, outdeg_v) == FRecip(outdeg_v)

\* the weight of one two-path
Weight(indeg_v, outdeg_v) == FRecip(indeg_v * outdeg_v)

\* the timestamp handled before times[i]; -1 before the first
PrevT(times, i) == IF i = 1 THEN 0 - 1 ELSE times[i - 1]

\* a faulty window test: a gap of exactly d is skipped too
JoinedStrict(prev_t, t, d) ==
    IF prev_t = 0 - 1 THEN FALSE
    ELSE IF prev_t <= t - d THEN FALSE
    ELSE TRUE

\* whether the loop body joins prev_t with t
Joined(prev_t, t, d) ==
    IF prev_t = 0 - 1 THEN FALSE
    ELSE IF prev_t < t - d THEN FALSE
    ELSE TRUE

\* a faulty join: only the first incoming edge is paired with the outgoing ones
JoinNodeFirstIn(es, prev_t, t, v) ==
    LET ins  == TargetsAt(es, prev_t, v)
        outs == SourcesAt(es, t, v)
    IN  [j \in 1..Len(outs) |->
            <<ins[1][1], v, outs[j][2], Weight(Len(ins), Len(outs))>>]

\* the two-paths through v for incoming edges at prev_t and outgoing edges at t:
\* e_out is the outer loop, e_in the inner one
JoinNode(es, prev_t, t, v) ==
    LET ins  == TargetsAt(es, prev_t, v)
        outs == SourcesAt(es, t, v)
    IN  Flatten([j \in 1..Len(outs) |->
                    [k \in 1..Len(ins) |->
                        <<ins[k][1], v, outs[j][2], Weight(Len(ins), Len(outs))>>]])

JoinStep(es, prev_t, t) ==
    LET keys == TargetKeys(es, prev_t)
    IN  Flatten([i \in 1..Len(keys) |-> JoinNode(es, prev_t, t, keys[i])])

\* the two-paths appended while the loop handles times[i]
PathsAtIndex(es, times, i, d) ==
    IF Joined(PrevT(times, i), times[i], d)
    THEN JoinStep(es, PrevT(times, i), times[i])
    ELSE <<>>

\* self.twopaths after extractTwoPaths(delta = d)
ExtractPaths(es, d) ==
    LET times == OrderedTimes(es)
    IN  Flatten([i \in 1..Len(times) |-> PathsAtIndex(es, times, i, d)])

\* the two-paths appended to twopathsByTime[t][v] (and twopathsByNode[v][t])
PathsAtTimeNode(es, d, t, v) ==
    LET times == OrderedTimes(es)
        i     == CHOOSE j \in 1..Len(times) : times[j] = t
    IN  IF Joined(PrevT(times, i), t, d) /\ v \in Range(TargetKeys(es, PrevT(times, i)))
        THEN JoinNode(es, PrevT(times, i), t, v)
        ELSE <<>>

\* the (t, v) for which the extraction creates at least one two-path
NewTimeNodeKeys(es, d) ==
    {k \in {<<es[i][3], es[i][1]>> : i \in 1..Len(es)} :
        Len(PathsAtTimeNode(es, d, k[1], k[2])) > 0}

\* twopathsByTime: (t, v) -> list.  The lists are appended to; nothing is removed.
IndexByTime(old, es, d) ==
    LET new == NewTimeNodeKeys(es, d)
    IN  [k \in DOMAIN old \cup new |->
            (IF k \in DOMAIN old THEN old[k] ELSE <<>>)
            \o (IF k \in new THEN PathsAtTimeNode(es, d, k[1], k[2]) ELSE <<>>)]

\* twopathsByNode: (v, t) -> list
IndexByNode(old, es, d) ==
    LET new == {<<k[2], k[1]>> : k \in NewTimeNodeKeys(es, d)}
    IN  [k \in DOMAIN old \cup new |->
            (IF k \in DOMAIN old THEN old[k] ELSE <<>>)
            \o (IF k \in new THEN PathsAtTimeNode(es, d, k[2], k[1]) ELSE <<>>)]

\* --------------------------------------------------------- aggregate graphs
\* edge_list[key] = edge_list.get(key, 0) + w on an insertion-ordered dict
DictAdd(dict, key, w) ==
    IF \E i \in 1..Len(dict) : dict[i].key = key
    THEN LET i == CHOOSE j \in 1..Len(dict) : dict[j].key = key
         IN  [dict EXCEPT ![i].w = FAdd(@, w)]
    ELSE Append(dict, [key |-> key, w |-> w])

\* a faulty accumulation: only the first leg is credited
FirstLegOnly(dict, tp) == DictAdd(dict, <<tp[1], tp[2]>>, tp[4])

\* both legs of one two-path are credited
FirstOrderLegs(dict, tp) ==
    DictAdd(DictAdd(dict, <<tp[1], tp[2]>>, tp[4]), <<tp[2], tp[3]>>, tp[4])

RECURSIVE FirstOrderEdgeList(_, _, _)
FirstOrderEdgeList(tps, i, dict) ==
    IF i > Len(tps) THEN dict
    ELSE FirstOrderEdgeList(tps, i + 1, FirstOrderLegs(dict, tps[i]))

SecondOrderLeg(dict, tp) ==
    DictAdd(dict, <<JoinNames(tp[1], tp[2]), JoinNames(tp[2], tp[3])>>, tp[4])

RECURSIVE SecondOrderEdgeDict(_, _, _)
SecondOrderEdgeDict(tps, i, dict) ==
    IF i > Len(tps) THEN dict
    ELSE SecondOrderEdgeDict(tps, i + 1, SecondOrderLeg(dict, tps[i]))

\* list(set(vertex_list)): the order of a set is not defined, so a set it stays
SecondOrderVertices(tps) ==
    {JoinNames(tps[i][1], tps[i][2]) : i \in 1..Len(tps)}
    \cup {JoinNames(tps[i][2], tps[i][3]) : i \in 1..Len(tps)}

\* self.g1 = 0, self.g2 = 0
NoGraph1 == [built |-> FALSE, vs |-> <<>>, es |-> <<>>, weight |-> <<>>]
NoGraph2 == [built |-> FALSE, vs |-> {}, es |-> <<>>, weight |-> <<>>]

BuildFirstOrder(ns, tps) ==
    LET edge_list == FirstOrderEdgeList(tps, 1, <<>>)
    IN  [built  |-> TRUE,
         vs     |-> ns,
         es     |-> [i \in 1..Len(edge_list) |-> edge_list[i].key],
         weight |-> [i \in 1..Len(edge_list) |-> edge_list[i].w]]

BuildSecondOrder(tps) ==
    LET edge_dict == SecondOrderEdgeDict(tps, 1, <<>>)
    IN  [built  |-> TRUE,
         vs     |-> SecondOrderVertices(tps),
         es     |-> [i \in 1..Len(edge_dict) |-> edge_dict[i].key],
         weight |-> [i \in 1..Len(edge_dict) |-> edge_dict[i].w]]

\* ------------------------------------------------------------------- state
VARIABLES
    tedges,          \* self.tedges: list of (source, target, time)
    nodes,           \* self.nodes: list of node names, in order of first appearance
    twopaths,        \* self.twopaths: list of (s, v, d, weight)
    twopathsByNode,  \* self.twopathsByNode[v][t], as a map (v, t) -> list
    twopathsByTime,  \* self.twopathsByTime[t][v], as a map (t, v) -> list
    tpcount,         \* self.tpcount, -1 when the two-paths are not extracted
    g1,              \* self.g1
    g2,              \* self.g2
    delta,           \* the delta of the latest extractTwoPaths(delta) call
    last,            \* the latest call: its name and, for extractTwoPaths, its delta
    g2n,             \* self.g2n
    tn,              \* the network returned by the latest ShuffleEdges / ShuffleTwoPaths
    agg,             \* the AggregateNetwork constructed last
    err              \* the exception the latest call raised, "none" when it returned

vars == <<tedges, nodes, twopaths, twopathsByNode, twopathsByTime, tpcount,
          g1, g2, delta, last, g2n, tn, agg, err>>

\* the objects the two-path methods and the graph accessors never touch
others == <<g2n, tn, agg>>

\* self.g2n = 0
NoGraphNull ==
    [built |-> FALSE, vs |-> {}, es |-> {}, weight |-> <<>>, giant |-> {}, pi |-> <<>>]

\* no shuffled network was returned yet
NoNetwork == [made |-> FALSE, tedges |-> <<>>, nodes |-> <<>>, shared |-> FALSE, tpcount |-> 0 - 1]

\* no aggregate network was constructed yet
NoAggregate == [made |-> FALSE, k |-> 0, delta |-> 0, kpaths |-> <<>>, kpcount |-> 0]

\* the default of extractTwoPaths(self, delta=1)
DefaultDelta == 1

\* the cap on the entries of twopathsByTime beyond which no explicit
\* re-extraction is started
MaxIndex == 2

Deltas == 1..MaxDelta
Times == 1..MaxTime

\* TemporalNetwork(tedges = es)
Construct(es) ==
    /\ tedges = es
    /\ nodes = NodesOf(es, 1, <<>>)
    /\ twopaths = <<>>
    /\ twopathsByNode = <<>>
    /\ twopathsByTime = <<>>
    /\ tpcount = 0 - 1
    /\ g1 = NoGraph1
    /\ g2 = NoGraph2
    /\ delta = DefaultDelta
    /\ last = [op |-> "init", arg |-> 0]
    /\ g2n = NoGraphNull
    /\ tn = NoNetwork
    /\ agg = NoAggregate
    /\ err = "none"

\* a faulty addEdge that leaves the two-path count as it was
addEdgeKeepCount(source, target, time) ==
    /\ tedges' = Append(tedges, <<source, target, time>>)
    /\ nodes' = AppendNew(AppendNew(nodes, source), target)
    /\ last' = [op |-> "addEdge", arg |-> 0]
    /\ UNCHANGED <<twopaths, twopathsByNode, twopathsByTime, tpcount, g1, g2, delta>>
    /\ err' = "none"
    /\ UNCHANGED others

addEdge(source, target, time) ==
    /\ tedges' = Append(tedges, <<source, target, time>>)
    /\ nodes' = AppendNew(AppendNew(nodes, source), target)
    /\ tpcount' = 0 - 1
    /\ last' = [op |-> "addEdge", arg |-> 0]
    /\ UNCHANGED <<twopaths, twopathsByNode, twopathsByTime, g1, g2, delta>>
    /\ err' = "none"
    /\ UNCHANGED others

\* a faulty extraction that returns early on a network without edges and
\* leaves the count at -1
DoExtractSkipEmpty(d) ==
    IF tedges = <<>>
    THEN UNCHANGED <<twopaths, twopathsByNode, twopathsByTime, tpcount>>
    ELSE /\ twopaths' = ExtractPaths(tedges, d)
         /\ twopathsByNode' = IndexByNode(twopathsByNode, tedges, d)
         /\ twopathsByTime' = IndexByTime(twopathsByTime, tedges, d)
         /\ tpcount' = Len(twopaths')

\* the body of extractTwoPaths(d)
DoExtract(d) ==
    /\ twopaths' = ExtractPaths(tedges, d)
    /\ twopathsByNode' = IndexByNode(twopathsByNode, tedges, d)
    /\ twopathsByTime' = IndexByTime(twopathsByTime, tedges, d)
    /\ tpcount' = Len(twopaths')

\* `if self.tpcount == -1: self.extractTwoPaths()`
ExtractIfNeeded ==
    IF tpcount = 0 - 1
    THEN DoExtract(DefaultDelta)
    ELSE UNCHANGED <<twopaths, twopathsByNode, twopathsByTime, tpcount>>

extractTwoPaths(d) ==
    /\ DoExtract(d)
    /\ delta' = d
    /\ last' = [op |-> "extractTwoPaths", arg |-> d]
    /\ UNCHANGED <<tedges, nodes, g1, g2>>
    /\ err' = "none"
    /\ UNCHANGED others

\* returns tpcount'
TwoPathCount ==
    /\ ExtractIfNeeded
    /\ last' = [op |-> "TwoPathCount", arg |-> 0]
    /\ UNCHANGED <<tedges, nodes, g1, g2, delta>>
    /\ err' = "none"
    /\ UNCHANGED others

\* returns g1'
igraphFirstOrder ==
    /\ last' = [op |-> "igraphFirstOrder", arg |-> 0]
    /\ IF g1.built
       THEN UNCHANGED <<twopaths, twopathsByNode, twopathsByTime, tpcount, g1>>
       ELSE /\ ExtractIfNeeded
            /\ g1' = BuildFirstOrder(nodes, twopaths')
    /\ UNCHANGED <<tedges, nodes, g2, delta>>
    /\ err' = "none"
    /\ UNCHANGED others

\* returns g2'
igraphSecondOrder ==
    /\ last' = [op |-> "igraphSecondOrder", arg |-> 0]
    /\ IF g2.built
       THEN UNCHANGED <<twopaths, twopathsByNode, twopathsByTime, tpcount, g2>>
       ELSE /\ ExtractIfNeeded
            /\ g2' = BuildSecondOrder(twopaths')
    /\ UNCHANGED <<tedges, nodes, g1, delta>>
    /\ err' = "none"
    /\ UNCHANGED others

\* the number of two-paths held by an index
RECURSIVE SumLen(_, _)
SumLen(f, keys) ==
    IF keys = {} THEN 0
    ELSE LET k == CHOOSE x \in keys : TRUE
         IN  Len(f[k]) + SumLen(f, keys \ {k})

IndexSize(index) == SumLen(index, DOMAIN index)

\* ------------------------------------------------- second-order null model
\* the vertices reached from S along the edges E
RECURSIVE ReachFrom(_, _)
ReachFrom(S, E) ==
    LET N == S \cup {e[2] : e \in {x \in E : x[1] \in S}}
    IN  IF N = S THEN S ELSE ReachFrom(N, E)

\* the strongly connected component of v
Component(v, E) == {u \in ReachFrom({v}, E) : v \in ReachFrom({u}, E)}

\* components(mode='STRONG').giant(): a largest strongly connected component;
\* which one of several largest ones is taken is left to the library
Giants(g) ==
    LET E  == Range(g.es)
        Cs == {Component(v, E) : v \in g.vs}
    IN  IF g.vs = {} THEN {{}}
        ELSE {C \in Cs : \A D \in Cs : Cardinality(D) <= Cardinality(C)}

\* name.split(';')
RECURSIVE SplitFrom(_, _, _, _)
SplitFrom(name, i, piece, pieces) ==
    IF i > Len(name) THEN Append(pieces, piece)
    ELSE IF name[i] = ";"
    THEN SplitFrom(name, i + 1, <<>>, Append(pieces, piece))
    ELSE SplitFrom(name, i + 1, Append(piece, name[i]), pieces)

Split(name) == SplitFrom(name, 1, <<>>, <<>>)

\* `b == b_` with b = e1name.split(';')[1] and b_ = e2name.split(';')[0]
Follows(e1name, e2name) == Split(e1name)[2] = Split(e2name)[1]

\* the keys of edge_dict; the order of the edges follows the vertex order of
\* the component, which the library decides: the edges are kept as a set
NullEdgeKeys(giant, pi) ==
    {e \in giant \X giant : Follows(e[1], e[2]) /\ pi[e[2]] > 0}

\* the entries a stationary vector returned by sla.eigs can hold: the
\* eigenvector is the library's, the positive entries stand for distinct weights
PiValues == {0, 1, 2}

\* the exceptions the libraries raise on a component too small for sla.eigs
LibraryErrors == {"ValueError", "TypeError"}

\* self.igraphSecondOrder(), its result cached in self.g2
SecondOrderCached ==
    IF g2.built
    THEN UNCHANGED <<twopaths, twopathsByNode, twopathsByTime, tpcount, g2>>
    ELSE /\ ExtractIfNeeded
         /\ g2' = BuildSecondOrder(twopaths')

\* the fewest vertices for which sla.eigs(T, k=1) computes an eigenvector: it
\* requires k < n - 1
MinEigs == 3

\* returns g2n'; last'.arg counts the calls of sparseStationaryDistribution
igraphSecondOrderNull ==
    IF g2n.built
    THEN /\ last' = [op |-> "igraphSecondOrderNull", arg |-> 0]
         /\ err' = "none"
         /\ UNCHANGED <<tedges, nodes, twopaths, twopathsByNode, twopathsByTime,
                        tpcount, g1, g2, delta, g2n, tn, agg>>
    ELSE /\ SecondOrderCached
         /\ \E giant \in Giants(g2') :
              IF Cardinality(giant) < MinEigs
              THEN /\ err' \in LibraryErrors
                   /\ g2n' = g2n
                   /\ \E started \in (IF giant = {} THEN {0, 1} ELSE {1}) :
                          last' = [op |-> "igraphSecondOrderNull", arg |-> started]
              ELSE \E pi \in [giant -> PiValues] :
                     /\ g2n' = [built  |-> TRUE,
                                vs     |-> g2'.vs,
                                es     |-> NullEdgeKeys(giant, pi),
                                weight |-> [e \in NullEdgeKeys(giant, pi) |-> pi[e[2]]],
                                giant  |-> giant,
                                pi     |-> pi]
                     /\ err' = "none"
                     /\ last' = [op |-> "igraphSecondOrderNull", arg |-> 1]
         /\ UNCHANGED <<tedges, nodes, g1, delta, tn, agg>>

\* ------------------------------------------------------------ randomizers
\* the number of edges ShuffleEdges draws; a faulty default that takes every
\* edge, as ShuffleTwoPaths does
ShuffleLengthAll(l, n) == IF l = 0 THEN n ELSE l

\* `if l==0: l = 2*int(len(self.tedges)/2)`
ShuffleLength(l, n) == IF l = 0 THEN 2 * (n \div 2) ELSE l

\* `tedges.append((edge[0], edge[1], i))` for the drawn positions picks[1..l]
ShuffledEdges(es, picks) ==
    [i \in 1..Len(picks) |-> <<es[picks[i]][1], es[picks[i]][2], i - 1>>]

\* returns tn'; the draws of np.random.randint are the choice of picks
ShuffleEdges(l) ==
    /\ ExtractIfNeeded
    /\ last' = [op |-> "ShuffleEdges", arg |-> l]
    /\ LET n == ShuffleLength(l, Len(tedges))
       IN  IF n > 0 /\ Len(tedges) = 0
           THEN \* np.random.randint(0, 0)
                /\ err' = "ValueError"
                /\ tn' = tn
           ELSE \E picks \in [1..n -> 1..Len(tedges)] :
                    /\ tn' = [made |-> TRUE, tedges |-> ShuffledEdges(tedges, picks),
                              nodes |-> <<>>, shared |-> TRUE, tpcount |-> 0 - 1]
                    /\ err' = "none"
    /\ UNCHANGED <<tedges, nodes, g1, g2, delta, g2n, agg>>

\* `range(int(l/2))` after `if l==0: l = len(self.tedges)`
HalfLength(l, n) == (IF l = 0 THEN n ELSE l) \div 2

\* the (time, node, position) triples a draw of ShuffleTwoPaths can end on
Draws(index) == UNION {{<<k, i>> : i \in 1..Len(index[k])} : k \in DOMAIN index}

\* the synthetic timestamp of the k-th draw: `t = 0`, never advanced
DrawTime(k) == 0

\* `tedges.append((tp[0], tp[1], t)); tedges.append((tp[1], tp[2], t+1))`
TwoPathEdges(index, picks) ==
    Flatten([k \in 1..Len(picks) |->
        LET tp == index[picks[k][1]][picks[k][2]]
        IN  << <<tp[1], tp[2], DrawTime(k)>>, <<tp[2], tp[3], DrawTime(k) + 1>> >>])

\* returns tn'
ShuffleTwoPaths(l) ==
    /\ ExtractIfNeeded
    /\ last' = [op |-> "ShuffleTwoPaths", arg |-> l]
    /\ LET m == HalfLength(l, Len(tedges))
       IN  IF m > 0 /\ DOMAIN twopathsByTime' = {}
           THEN \* np.random.randint(0, 0)
                /\ err' = "ValueError"
                /\ tn' = tn
           ELSE \E picks \in [1..m -> Draws(twopathsByTime')] :
                    /\ tn' = [made |-> TRUE,
                              tedges |-> TwoPathEdges(twopathsByTime', picks),
                              nodes |-> NodesOf(TwoPathEdges(twopathsByTime', picks), 1, <<>>),
                              shared |-> FALSE, tpcount |-> 0 - 1]
                    /\ err' = "none"
    /\ UNCHANGED <<tedges, nodes, g1, g2, delta, g2n, agg>>

\* tn.nodes: after `tn.nodes = self.nodes` it is the list object of the original
TnNodes == IF tn.shared THEN nodes ELSE tn.nodes

\* addEdge called on the returned network
TnAddEdge(source, target, time) ==
    /\ tn.made
    /\ tn' = [tn EXCEPT !.tedges = Append(@, <<source, target, time>>),
                        !.nodes = IF tn.shared THEN @
                                  ELSE AppendNew(AppendNew(@, source), target),
                        !.tpcount = 0 - 1]
    /\ nodes' = IF tn.shared THEN AppendNew(AppendNew(nodes, source), target) ELSE nodes
    /\ last' = [op |-> "tn.addEdge", arg |-> 0]
    /\ err' = "none"
    /\ UNCHANGED <<tedges, twopaths, twopathsByNode, twopathsByTime, tpcount,
                   g1, g2, delta, g2n, agg>>

\* ------------------------------------------------------- k-path extraction
\* the indices of the temporal network the k-path extractor reads:
\* tmpNet.ordered_times, tmpNet.time[ts], tmpNet.sources[ts][node]
OrderedTimesIndex(es) == OrderedTimes(es)

TimeIndex(es, ts) == EdgesAt(es, ts)

SourcesIndex(es, ts, node) == SourcesAt(es, ts, node)

\* the edges of the dt timestamps t0 .. t0+dt-1
TimeWindow(es, t0, dt) == Flatten([i \in 1..dt |-> TimeIndex(es, t0 + i - 1)])

\* the edges leaving node at the dt timestamps t0 .. t0+dt-1
SourceWindow(es, t0, dt, node) ==
    Flatten([i \in 1..dt |-> SourcesIndex(es, t0 + i - 1, node)])

\* the orders in which a set of nodes can be iterated
Perms(S) ==
    {p \in [1..Cardinality(S) -> S] : \A i, j \in 1..Cardinality(S) : i # j => p[i] # p[j]}

\* case k == 0: every edge of the window that is not a self-loop starts a path
RECURSIVE FirstLegs(_, _, _)
FirstLegs(edges, i, st) ==
    IF i > Len(edges) THEN st
    ELSE LET e == edges[i]
         IN  FirstLegs(edges, i + 1,
                 IF e[1] # e[2]
                 THEN [st EXCEPT !.possible_path[e[2]] = Append(@, <<e[1], e[2]>>),
                                 !.candidate_nodes = @ \cup {e[2]}]
                 ELSE st)

\* the number of paths of `order` nodes that end in src
Siblings(st, src, order) ==
    Cardinality({j \in 1..Len(st.possible_path[src]) : Len(st.possible_path[src][j]) = order})

\* w = 1. / (len_new_edges * len([i for i in possible_path[src] if len(i) == order]))
KWeight(len_new_edges, siblings) == FRecip(len_new_edges * siblings)

\* `for path in possible_path[src]`, from the j-th path on, for the edge e
RECURSIVE ExtendBy(_, _, _, _, _, _)
ExtendBy(st, e, j, len_new_edges, current_k, order) ==
    IF j > Len(st.possible_path[e[1]]) THEN st
    ELSE LET path == st.possible_path[e[1]][j]
         IN  IF path[Len(path)] = e[2]
             THEN ExtendBy(st, e, j + 1, len_new_edges, current_k, order)
             ELSE LET new_path == Append(path, e[2])
                      st1 == [st EXCEPT !.possible_path[e[2]] = Append(@, new_path),
                                        !.new_candidate_nodes = @ \cup {e[2]}]
                      st2 == IF current_k + 1 = order /\ Len(new_path) = order + 1
                             THEN [st1 EXCEPT !.update =
                                      DictAdd(@, new_path,
                                              KWeight(len_new_edges,
                                                      Siblings(st1, e[1], order)))]
                             ELSE st1
                  IN  ExtendBy(st2, e, j + 1, len_new_edges, current_k, order)

\* `for e in new_edges`
RECURSIVE ExtendEdges(_, _, _, _, _)
ExtendEdges(st, new_edges, i, current_k, order) ==
    IF i > Len(new_edges) THEN st
    ELSE ExtendEdges(ExtendBy(st, new_edges[i], 1, Len(new_edges), current_k, order),
                     new_edges, i + 1, current_k, order)

\* the body of `for node in candidate_nodes`
ExtendNode(st, es, t, dt, node, current_k, order) ==
    LET st1 == ExtendEdges([st EXCEPT !.update = <<>>],
                           SourceWindow(es, t + current_k, dt, node), 1, current_k, order)
    IN  [st1 EXCEPT !.kpaths =
            @ \o [i \in 1..Len(st1.update) |->
                     [nodes |-> st1.update[i].key, weight |-> st1.update[i].w]]]

RECURSIVE ExtendNodes(_, _, _, _, _, _, _, _)
ExtendNodes(st, es, t, dt, todo, i, current_k, order) ==
    IF i > Len(todo) THEN st
    ELSE ExtendNodes(ExtendNode(st, es, t, dt, todo[i], current_k, order),
                     es, t, dt, todo, i + 1, current_k, order)

\* `for current_k in range(1, order)`; the candidate set is iterated in the
\* order iter gives its nodes
RECURSIVE Rounds(_, _, _, _, _, _, _)
Rounds(st, es, t, dt, iter, current_k, order) ==
    IF current_k >= order THEN st
    ELSE LET todo == SelectSeq(iter, LAMBDA n : n \in st.candidate_nodes)
             st1 == ExtendNodes([st EXCEPT !.new_candidate_nodes = {}],
                                es, t, dt, todo, 1, current_k, order)
         IN  Rounds([st1 EXCEPT !.candidate_nodes = st1.new_candidate_nodes],
                    es, t, dt, iter, current_k + 1, order)

\* the timestamp before which the first block may not start
FirstValidT == 0

\* `for t in tmpNet.ordered_times`, from the i-th timestamp on
RECURSIVE KPathsFrom(_, _, _, _, _, _, _, _)
KPathsFrom(es, times, i, next_valid_t, order, dt, iter, kpaths) ==
    IF i > Len(times) THEN kpaths
    ELSE IF times[i] < next_valid_t
    THEN KPathsFrom(es, times, i + 1, next_valid_t, order, dt, iter, kpaths)
    ELSE LET t == times[i]
             st0 == [possible_path |-> [n \in Range(iter) |-> <<>>],
                     candidate_nodes |-> {}, new_candidate_nodes |-> {},
                     update |-> <<>>, kpaths |-> kpaths]
             st1 == FirstLegs(TimeWindow(es, t, dt), 1, st0)
             st2 == Rounds(st1, es, t, dt, iter, 1, order)
         IN  KPathsFrom(es, times, i + 1, t + dt, order, dt, iter, st2.kpaths)

\* __extract_k_paths(tmpNet, order, dt)
extract_k_paths(es, order, dt, iter) ==
    KPathsFrom(es, OrderedTimesIndex(es), 1, FirstValidT, order, dt, iter, <<>>)

\* AggregateNetwork(tempNet, order, maxTimeDiff); when the constructor raises,
\* agg' is no object (made = FALSE) and keeps the arguments of the call
AggregateNetwork(order, maxTimeDiff) ==
    /\ last' = [op |-> "AggregateNetwork", arg |-> order]
    /\ IF order < 1 \/ maxTimeDiff < 1
       THEN /\ err' = "ValueError"
            /\ agg' = [NoAggregate EXCEPT !.k = order, !.delta = maxTimeDiff]
       ELSE \E iter \in Perms(Range(nodes)) :
                LET kpaths == extract_k_paths(tedges, order, maxTimeDiff, iter)
                IN  /\ agg' = [made |-> TRUE, k |-> order, delta |-> maxTimeDiff,
                               kpaths |-> kpaths, kpcount |-> Len(kpaths)]
                    /\ err' = "none"
    /\ UNCHANGED <<tedges, nodes, twopaths, twopathsByNode, twopathsByTime, tpcount,
                   g1, g2, delta, g2n, tn>>

\* ------------------------------------------- a store that grows edge by edge
\* edges along the line A -> B -> C
LineEdges == {<<p[1], p[2], t>> : p \in {<<NodeA, NodeB>>, <<NodeB, NodeC>>}, t \in Times}

Init == Construct(<<>>)

AddEdge ==
    \E e \in LineEdges : Len(tedges) < MaxEdges /\ addEdge(e[1], e[2], e[3])

ReExtract ==
    \E d \in Deltas : IndexSize(twopathsByTime) < MaxIndex /\ extractTwoPaths(d)

Next ==
    \/ AddEdge
    \/ ReExtract
    \/ TwoPathCount
    \/ igraphFirstOrder
    \/ igraphSecondOrder

Spec == Init /\ [][Next]_vars

\* --------------------------------- a store constructed from a list of edges
\* A and C send to B, B sends to C
BatchEdges ==
    {<<p[1], p[2], ts>> :
        p \in {<<NodeA, NodeB>>, <<NodeC, NodeB>>, <<NodeB, NodeC>>}, ts \in Times}

InitBatch == \E es \in SeqsUpTo(BatchEdges, MaxEdges) : Construct(es)

ExtractOnce ==
    \E d \in Deltas : tpcount = 0 - 1 /\ extractTwoPaths(d)

NextBatch ==
    \/ ExtractOnce
    \/ TwoPathCount
    \/ igraphFirstOrder
    \/ igraphSecondOrder

SpecBatch == InitBatch /\ [][NextBatch]_vars

\* ------------------------------------------- node names that hold a ";"
NameNodes == {NodeA, NodeAA}
NameEdges == {<<s, t, ts>> : s \in NameNodes, t \in NameNodes, ts \in Times}

InitNames == \E es \in SeqsUpTo(NameEdges, MaxEdges) : Construct(es)

SpecNames == InitNames /\ [][NextBatch]_vars

\* ------------------------------------------------ the worked example of the specification
ScenarioInput ==
    << <<NodeA, NodeB, 1>>, <<NodeB, NodeC, 2>>, <<NodeA, NodeB, 3>>, <<NodeB, NodeD, 4>> >>

InitScenario ==
    \E es \in SeqsUpTo(Range(ScenarioInput), Len(ScenarioInput)) : Construct(es)

SpecScenario == InitScenario /\ [][NextBatch]_vars

\* ------------------------------------- insertion orders of one edge multiset
\* two consecutive timestamps; B may fan out to several edges at the second
ReorderEdges ==
    { <<NodeB, NodeC, 1>>, <<NodeC, NodeB, 1>>, <<NodeB, NodeA, 2>>, <<NodeC, NodeB, 2>> }

InitReorder == \E es \in SeqsUpTo(ReorderEdges, MaxReorder) : Construct(es)

SpecReorder == InitReorder /\ [][NextBatch]_vars

\* ------------------------------------------ a network and its shuffled copy
ShuffleInput == { <<NodeA, NodeB, 1>>, <<NodeB, NodeC, 2>>, <<NodeC, NodeA, 3>> }

\* the edge lists are given in chronological order
Chronological(es) == \A i \in 1..(Len(es) - 1) : es[i][3] < es[i + 1][3]

InitShuffle ==
    \E es \in SeqsUpTo(ShuffleInput, MaxEdges) : Chronological(es) /\ Construct(es)

Lengths == 0..MaxShuffle

DrawEdges == \E l \in Lengths : ShuffleEdges(l)

DrawTwoPaths == \E l \in 0..(2 * MaxDraws) : ShuffleTwoPaths(l)

\* an edge to a node the network does not know yet
AddNewNode == Len(tedges) < MaxEdges /\ addEdge(NodeC, NodeD, MaxTime)

TnAddNewNode == Len(tn.tedges) < 2 * MaxDraws /\ TnAddEdge(NodeD, NodeA, 0)

NextShuffle ==
    \/ DrawEdges
    \/ DrawTwoPaths
    \/ AddNewNode
    \/ TnAddNewNode

SpecShuffle == InitShuffle /\ [][NextShuffle]_vars

\* ------------------------------------------------ edges that are self-loops
LoopNodes == {NodeA, NodeB}
LoopEdges == {<<s, t, ts>> : s \in LoopNodes, t \in LoopNodes, ts \in Times}

InitLoops == \E es \in SeqsUpTo(LoopEdges, MaxEdges) : Construct(es)

SpecLoops == InitLoops /\ [][NextBatch]_vars

\* ------------------------------------------ aggregate networks of order k
InitAgg == \E es \in SeqsUpTo(LineEdges, MaxEdges) : Construct(es)

\* the parameters tried include the invalid ones 0 and -1
Orders == (0 - 1)..MaxOrder
Windows == (0 - 1)..MaxDelta

\* one aggregate network is constructed per run
Aggregate ==
    \E order \in Orders, dt \in Windows : agg = NoAggregate /\ AggregateNetwork(order, dt)

ExtractWindow == \E d \in Windows : tpcount = 0 - 1 /\ extractTwoPaths(d)

NextAgg ==
    \/ Aggregate
    \/ ExtractWindow
    \/ TwoPathCount

SpecAgg == InitAgg /\ [][NextAgg]_vars

\* -------------------------------- networks whose second-order graph cycles
\* the cycle A -> B -> C -> A -> B and an edge that leaves it
NullEdges ==
    { <<NodeA, NodeB, 1>>, <<NodeB, NodeC, 2>>, <<NodeC, NodeA, 3>>,
      <<NodeA, NodeB, 4>>, <<NodeB, NodeD, 5>> }

\* the same cycle with the node A;A in the place of A
NullNameEdges ==
    { <<NodeAA, NodeB, 1>>, <<NodeB, NodeC, 2>>, <<NodeC, NodeAA, 3>>,
      <<NodeAA, NodeB, 4>> }

InitNull ==
    \E es \in SeqsUpTo(NullEdges, MaxNull) \cup SeqsUpTo(NullNameEdges, MaxNull) :
        Chronological(es) /\ Construct(es)

NextNull ==
    \/ igraphSecondOrderNull
    \/ ExtractOnce
    \/ TwoPathCount
    \/ igraphFirstOrder
    \/ igraphSecondOrder

SpecNull == InitNull /\ [][NextNull]_vars

\* ------------------------------ networks whose timestamps may be 0 or negative
\* how far below 0 the timestamps reach
MaxShift == 2

SignedTimes == (0 - MaxShift)..(MaxTime - MaxShift)

SignedEdges ==
    {<<p[1], p[2], t>> : p \in {<<NodeA, NodeB>>, <<NodeB, NodeC>>}, t \in SignedTimes}

InitSigned == \E es \in SeqsUpTo(SignedEdges, MaxEdges) : Construct(es)

SpecSigned == InitSigned /\ [][NextAgg]_vars

\* the timestamps t for which the loop of __extract_k_paths does not `continue`,
\* from the i-th timestamp on
RECURSIVE BlockOrigins(_, _, _, _)
BlockOrigins(times, i, next_valid_t, dt) ==
    IF i > Len(times) THEN <<>>
    ELSE IF times[i] < next_valid_t
    THEN BlockOrigins(times, i + 1, next_valid_t, dt)
    ELSE <<times[i]>> \o BlockOrigins(times, i + 1, times[i] + dt, dt)

\* ------------------------------------- edges are added and two-paths counted
NextCount ==
    \/ AddEdge
    \/ TwoPathCount

SpecCount == Init /\ [][NextCount]_vars

\* ------------------------------------------- many edges through one mid-node
\* the most edges of a network whose weights are summed
MaxMass == 5

MassEdges ==
    { <<NodeA, NodeB, 1>>, <<NodeC, NodeB, 1>>, <<NodeB, NodeC, 2>>, <<NodeC, NodeA, 3>> }

InitMass == \E es \in SeqsUpTo(MassEdges, MaxMass) : Construct(es)

NextMass ==
    \/ ExtractOnce
    \/ TwoPathCount

SpecMass == InitMass /\ [][NextMass]_vars

\* ------------------------------------------------ the graph of order k
\* self.sep.join([str(n) for n in names])
RECURSIVE JoinAll(_)
JoinAll(names) ==
    IF Len(names) = 1 THEN names[1] ELSE JoinNames(names[1], JoinAll(Tail(names)))

\* edges[(n1, n2)] = edges.get((n1, n2), 0) + path['weight'], n1 naming the
\* first k and n2 the last k nodes of the path
KthOrderLeg(dict, path, k) ==
    DictAdd(dict,
            <<JoinAll(SubSeq(path.nodes, 1, k)),
              JoinAll(SubSeq(path.nodes, 2, Len(path.nodes)))>>,
            path.weight)

\* the edge dictionary of igraphKthOrder
RECURSIVE KthOrderEdgeDict(_, _, _, _)
KthOrderEdgeDict(kpaths, k, i, dict) ==
    IF i > Len(kpaths) THEN dict
    ELSE KthOrderEdgeDict(kpaths, k, i + 1, KthOrderLeg(dict, kpaths[i], k))

\* ================================================================== claims
\* the graph as a set of (edge, weight): the order of presentation is dropped
EdgeWeights(g) == {<<g.es[i], g.weight[i]>> : i \in 1..Len(g.es)}

\* what the accessors return for the edges es under the window d
FirstOrderOf(es, d) == BuildFirstOrder(NodesOf(es, 1, <<>>), ExtractPaths(es, d))
SecondOrderOf(es, d) == BuildSecondOrder(ExtractPaths(es, d))

\* C1: after addEdge, a graph accessor that had already cached its graph returns
\* a graph computed from the new edge set, never the cached one.
C1_AccessorSeesAddedEdge ==
    /\ last.op = "igraphFirstOrder" => \E d \in Deltas : g1 = FirstOrderOf(tedges, d)
    /\ last.op = "igraphSecondOrder" => \E d \in Deltas : g2 = SecondOrderOf(tedges, d)

\* C2: once the window was changed to delta, every graph accessor and
\* TwoPathCount reflect delta, also after later addEdge calls.
C2_ReflectsLatestDelta ==
    /\ last.op = "TwoPathCount" => tpcount = Len(ExtractPaths(tedges, delta))
    /\ (last.op = "igraphFirstOrder" /\ \E d \in Deltas : g1 = FirstOrderOf(tedges, d))
          => g1 = FirstOrderOf(tedges, delta)
    /\ (last.op = "igraphSecondOrder" /\ \E d \in Deltas : g2 = SecondOrderOf(tedges, d))
          => g2 = SecondOrderOf(tedges, delta)

\* the triples (s, v, d) of the contract: edges (s, v, t) and (v, d, t') with
\* t < t' <= t + d
ContractTriples(es, d) ==
    {<<es[i][1], es[i][2], es[j][2]>> :
        <<i, j>> \in {p \in (1..Len(es)) \X (1..Len(es)) :
                        /\ es[p[1]][2] = es[p[2]][1]
                        /\ es[p[1]][3] < es[p[2]][3]
                        /\ es[p[2]][3] <= es[p[1]][3] + d}}

Triples(tps) == {<<tps[i][1], tps[i][2], tps[i][3]>> : i \in 1..Len(tps)}

\* C3: for every edge set and every delta >= 1 the triples of the extracted
\* two-paths are exactly the triples of the contract.
C3_TriplesAreContract ==
    tpcount # 0 - 1 => Triples(twopaths) = ContractTriples(tedges, delta)

\* degrees counted on the edge list itself
InDegree(es, v, t) == Cardinality({i \in 1..Len(es) : es[i][2] = v /\ es[i][3] = t})
OutDegree(es, v, t) == Cardinality({i \in 1..Len(es) : es[i][1] = v /\ es[i][3] = t})

\* the largest timestamp of es below t (t is not the smallest)
PredTime(es, t) ==
    CHOOSE p \in {es[i][3] : i \in 1..Len(es)} :
        /\ p < t
        /\ \A i \in 1..Len(es) : es[i][3] < t => es[i][3] <= p

\* the n with float(1)/n = w, for the weight of a two-path
ExactDen(w) == CHOOSE n \in 1..(MaxEdges * MaxEdges) : FRecip(n) = w

\* num/den + 1/n
RatAdd(r, n) == <<r[1] * n + r[2], r[2] * n>>

\* the exact sum, as <<num, den>>, of the weights list[i] for i in idx
RECURSIVE ExactSum(_, _)
ExactSum(list, idx) ==
    IF idx = {} THEN <<0, 1>>
    ELSE LET i == CHOOSE x \in idx : TRUE
         IN  RatAdd(ExactSum(list, idx \ {i}), ExactDen(list[i][4]))

\* in twopathsByTime[t][v] the k-th incoming edge is paired at the positions
\* k, k + indeg, k + 2*indeg, ...
FromIncoming(list, indeg, k) == {i \in 1..Len(list) : (i - 1) % indeg = k - 1}

C5_WeightIsReciprocalOfDegrees ==
    tpcount # 0 - 1 =>
        /\ \A key \in DOMAIN twopathsByTime :
              \A i \in 1..Len(twopathsByTime[key]) :
                  twopathsByTime[key][i][4] =
                      FRecip(InDegree(tedges, key[2], PredTime(tedges, key[1]))
                             * OutDegree(tedges, key[2], key[1]))
        /\ Range(twopaths) = UNION {Range(twopathsByTime[key]) : key \in DOMAIN twopathsByTime}

C5_Witness ==
    /\ tpcount # 0 - 1
    /\ \E i \in 1..Len(twopaths) : twopaths[i][4] = FRecip(2)
    /\ \E key \in DOMAIN twopathsByTime :
          /\ InDegree(tedges, key[2], PredTime(tedges, key[1])) = 1
          /\ OutDegree(tedges, key[2], key[1]) = 2

\* C6: after any sequence of extractions the flat list and both indices hold
\* exactly the two-paths of the latest extraction.
C6_CachesHoldLatestExtraction ==
    tpcount # 0 - 1 =>
        /\ tpcount = Len(twopaths)
        /\ IndexSize(twopathsByTime) = Len(twopaths)
        /\ IndexSize(twopathsByNode) = Len(twopaths)
        /\ \A key \in DOMAIN twopathsByTime : Range(twopathsByTime[key]) \subseteq Range(twopaths)
        /\ \A key \in DOMAIN twopathsByNode : Range(twopathsByNode[key]) \subseteq Range(twopaths)

\* the scenario: [(A,B,1),(B,C,2),(A,B,3),(B,D,4)] under delta = 1
ScenarioPaths ==
    << <<NodeA, NodeB, NodeC, FOne>>, <<NodeA, NodeB, NodeD, FOne>> >>

ScenarioFirstOrder ==
    { <<<<NodeA, NodeB>>, FTwo>>, <<<<NodeB, NodeC>>, FOne>>, <<<<NodeB, NodeD>>, FOne>> }

\* C7: on the scenario's edges with delta = 1 the two-paths are (A,B,C,1.0) and
\* (A,B,D,1.0), the count is 2 and the first-order graph has exactly the
\* weights A->B = 2.0, B->C = 1.0, B->D = 1.0.
C7_Scenario ==
    (tedges = ScenarioInput /\ delta = 1) =>
        /\ tpcount # 0 - 1 => (twopaths = ScenarioPaths /\ tpcount = 2)
        /\ g1.built => (EdgeWeights(g1) = ScenarioFirstOrder /\ Len(g1.es) = 3)

C7_Witness ==
    /\ tedges = ScenarioInput
    /\ delta = 1
    /\ last.op = "TwoPathCount"
    /\ tpcount = 2
    /\ g1.built

\* the ordered node pairs that are a first or a second leg of a two-path
LegPairs(tps) ==
    {<<tps[i][1], tps[i][2]>> : i \in 1..Len(tps)}
    \cup {<<tps[i][2], tps[i][3]>> : i \in 1..Len(tps)}

\* the weights credited to the pair `key`, in the order of the two-path list:
\* first legs and second legs
LegWeights(tps, key) ==
    Flatten([i \in 1..Len(tps) |->
        (IF <<tps[i][1], tps[i][2]>> = key THEN <<tps[i][4]>> ELSE <<>>)
        \o (IF <<tps[i][2], tps[i][3]>> = key THEN <<tps[i][4]>> ELSE <<>>)])

\* the weights of the two-paths with the triple tr, in the order of the list
TripleWeights(tps, tr) ==
    Flatten([i \in 1..Len(tps) |->
        IF <<tps[i][1], tps[i][2], tps[i][3]>> = tr THEN <<tps[i][4]>> ELSE <<>>])

\* ws[1] + ws[2] + ... in floats, left to right (ws is not empty)
RECURSIVE FSumUpTo(_, _)
FSumUpTo(ws, n) == IF n = 1 THEN ws[1] ELSE FAdd(FSumUpTo(ws, n - 1), ws[n])

FSum(ws) == FSumUpTo(ws, Len(ws))

\* C8: the first-order graph has the store's nodes as vertices and exactly one
\* edge per ordered pair that is a first or a second leg of a two-path; its
\* weight is the sum of the weights of the two-paths it is a first leg of plus
\* those it is a second leg of.
C8_FirstOrderGraph ==
    g1.built =>
        /\ g1.vs = nodes
        /\ Len(g1.weight) = Len(g1.es)
        /\ Cardinality(Range(g1.es)) = Len(g1.es)
        /\ Range(g1.es) = LegPairs(twopaths)
        /\ \A i \in 1..Len(g1.es) : g1.weight[i] = FSum(LegWeights(twopaths, g1.es[i]))

C8_Witness ==
    /\ g1.built
    /\ \E i \in 1..Len(g1.es) :
          /\ \E j \in 1..Len(twopaths) : <<twopaths[j][1], twopaths[j][2]>> = g1.es[i]
          /\ \E j \in 1..Len(twopaths) : <<twopaths[j][2], twopaths[j][3]>> = g1.es[i]
          /\ g1.weight[i] = FTwo

\* C9: the second-order graph has one vertex per distinct pair (s,v) or (v,d)
\* of the two-paths and one edge ((s,v),(v,d)) per distinct triple, weighted by
\* the sum of the weights of the two-paths with that triple.
C9_SecondOrderGraph ==
    g2.built =>
        /\ g2.vs = {JoinNames(p[1], p[2]) : p \in LegPairs(twopaths)}
        /\ Cardinality(g2.vs) = Cardinality(LegPairs(twopaths))
        /\ Len(g2.weight) = Len(g2.es)
        /\ Cardinality(Range(g2.es)) = Len(g2.es)
        /\ Len(g2.es) = Cardinality(Triples(twopaths))
        /\ \A tr \in Triples(twopaths) :
              \E i \in 1..Len(g2.es) :
                  /\ g2.es[i] = <<JoinNames(tr[1], tr[2]), JoinNames(tr[2], tr[3])>>
                  /\ g2.weight[i] = FSum(TripleWeights(twopaths, tr))

\* the same edges with those at positions i and i + 1 inserted the other way round
SwapAt(es, i) == [es EXCEPT ![i] = es[i + 1], ![i + 1] = es[i]]

\* C10: two insertion orders of one multiset of edges give first- and
\* second-order graphs with the same edges and the same weights.  Every
\* reordering is a chain of swaps of neighbours, and every order is an input.
C10_SameGraphsInAnyOrder ==
    /\ g1.built =>
          \A i \in 1..(Len(tedges) - 1) :
              EdgeWeights(FirstOrderOf(SwapAt(tedges, i), delta)) = EdgeWeights(g1)
    /\ g2.built =>
          \A i \in 1..(Len(tedges) - 1) :
              EdgeWeights(SecondOrderOf(SwapAt(tedges, i), delta)) = EdgeWeights(g2)

\* C11: the network a randomizer returns is independent of the original: a
\* later addEdge on the returned network leaves the original's edge list, node
\* list and caches as they were, and a later addEdge on the original leaves the
\* returned network's edge list and node list as they were
C11_ShuffledIsIndependent ==
    [][ /\ (last'.op = "tn.addEdge") =>
              UNCHANGED <<tedges, nodes, twopaths, twopathsByNode, twopathsByTime,
                          tpcount, g1, g2, g2n>>
        /\ (last'.op = "addEdge" /\ tn.made) =>
              (tn'.tedges = tn.tedges /\ TnNodes' = TnNodes) ]_vars

\* the largest even number <= n
LargestEven(n) == CHOOSE k \in 0..n : k % 2 = 0 /\ k + 2 > n

\* C12: ShuffleEdges(length) on a non-empty network returns L edges stamped
\* 0..L-1, one per timestamp, each with the (source, target) of an edge of the
\* original; L is length, or the largest even number <= the edge count when
\* length is 0
C12_ShuffleEdgesShape ==
    (last.op = "ShuffleEdges" /\ Len(tedges) > 0) =>
        /\ err = "none"
        /\ tn.made
        /\ Len(tn.tedges) = (IF last.arg # 0 THEN last.arg ELSE LargestEven(Len(tedges)))
        /\ \A i \in 1..Len(tn.tedges) :
              /\ tn.tedges[i][3] = i - 1
              /\ \E j \in 1..Len(tedges) :
                    tedges[j][1] = tn.tedges[i][1] /\ tedges[j][2] = tn.tedges[i][2]

C12_Witness ==
    /\ last.op = "ShuffleEdges"
    /\ last.arg = 0
    /\ Len(tedges) = 3
    /\ Len(tn.tedges) = 2
    /\ tn.tedges[1][1] # tn.tedges[2][1]

\* C13: ShuffleTwoPaths stamps the two edges of each draw with consecutive
\* timestamps, and no timestamp of one draw is used by another draw
C13_FreshTimestampsPerDraw ==
    (last.op = "ShuffleTwoPaths" /\ err = "none") =>
        /\ \A k \in 1..(Len(tn.tedges) \div 2) :
              tn.tedges[2 * k][3] = tn.tedges[2 * k - 1][3] + 1
        /\ \A i, j \in 1..Len(tn.tedges) :
              i # j => tn.tedges[i][3] # tn.tedges[j][3]

\* C14: self-loop edges are stored but take no part in a two-path: no extracted
\* two-path has a self-loop as its first leg (s = v) or as its second leg (v = d)
C14_NoSelfLoopLegs ==
    \A i \in 1..Len(twopaths) :
        twopaths[i][1] # twopaths[i][2] /\ twopaths[i][2] # twopaths[i][3]

\* C15: a request with order < 1 or delta < 1 is rejected with an
\* invalid-parameter error and produces no paths, both when an aggregate
\* network is constructed and when the window of the two-path extraction is set
C15_InvalidParametersRejected ==
    /\ (last.op = "AggregateNetwork" /\ (agg.k < 1 \/ agg.delta < 1)) =>
           (err = "ValueError" /\ ~agg.made /\ agg.kpaths = <<>>)
    /\ (last.op = "extractTwoPaths" /\ last.arg < 1) => err = "ValueError"

\* whether nodes[i..] is realised by stored edges with strictly increasing
\* timestamps and gaps <= d, the edge before nodes[i] being at prev_t
RECURSIVE Realised(_, _, _, _, _)
Realised(es, path, i, prev_t, d) ==
    IF i >= Len(path) THEN TRUE
    ELSE \E j \in 1..Len(es) :
            /\ es[j][1] = path[i]
            /\ es[j][2] = path[i + 1]
            /\ (i > 1 => (es[j][3] > prev_t /\ es[j][3] - prev_t <= d))
            /\ Realised(es, path, i + 1, es[j][3], d)

\* C20: every k-path the extractor emits is a time-respecting path: stored
\* edges realise its consecutive node pairs with strictly increasing
\* timestamps and every gap <= delta
C20_KPathsAreTimeRespecting ==
    agg.made =>
        \A i \in 1..Len(agg.kpaths) :
            Realised(tedges, agg.kpaths[i].nodes, 1, 0, agg.delta)

\* C16: when the giant strongly connected component of the order-2 graph has
\* fewer than 2 vertices, secondOrderNullGraph fails with a
\* DegenerateModelError before any stationary-distribution computation and
\* caches no null graph
C16_DegenerateModelRejected ==
    (last.op = "igraphSecondOrderNull" /\ \E G \in Giants(g2) : Cardinality(G) < 2) =>
        /\ err = "DegenerateModelError"
        /\ last.arg = 0
        /\ ~g2n.built

\* C17: the null graph has exactly the vertices of the giant strongly
\* connected component of the order-2 graph
C17_NullVerticesAreGiant ==
    g2n.built => g2n.vs = g2n.giant

\* C18: for vertices a = (x,y) and b = (y2,z) of the giant component, the null
\* graph has the edge a -> b exactly when y = y2 and pi[b] > 0, its weight is
\* pi[b], and it has no other edge
C18_NullEdgesFollowPi ==
    g2n.built =>
        /\ \A e \in g2n.es : e[1] \in g2n.giant /\ e[2] \in g2n.giant
        /\ \A x, y, y2, z \in Range(nodes) :
              LET a == JoinNames(x, y)
                  b == JoinNames(y2, z)
              IN  (a \in g2n.giant /\ b \in g2n.giant) =>
                      /\ (<<a, b>> \in g2n.es) <=> (y = y2 /\ g2n.pi[b] > 0)
                      /\ (<<a, b>> \in g2n.es) => g2n.weight[<<a, b>>] = g2n.pi[b]

\* C19: on a network with zero edges the extraction, TwoPathCount and the two
\* graph accessors return without error: no two-paths, count 0, graphs
\* without edges
C19_EmptyInputGivesEmptyResults ==
    tedges = <<>> =>
        /\ err = "none"
        /\ (last.op \in {"extractTwoPaths", "TwoPathCount"}) =>
               (tpcount = 0 /\ twopaths = <<>>)
        /\ (last.op = "igraphFirstOrder") =>
               (g1.built /\ g1.es = <<>> /\ g1.weight = <<>> /\ tpcount = 0)
        /\ (last.op = "igraphSecondOrder") =>
               (g2.built /\ g2.es = <<>> /\ g2.vs = {} /\ tpcount = 0)

C19_Witness ==
    /\ tedges = <<>>
    /\ last.op = "TwoPathCount"
    /\ tpcount = 0
    /\ g1.built
    /\ g2.built

\* the block origins of the aggregate network that was constructed
AggOrigins == BlockOrigins(OrderedTimesIndex(tedges), 1, FirstValidT, agg.delta)

\* C21: the k-path extractor processes time in non-overlapping blocks: the
\* first origin is the smallest timestamp of the network (0 and negative
\* timestamps included), every later origin is the smallest timestamp >=
\* previous origin + delta, and no timestamp strictly inside a consumed block
\* is an origin
C21_BlocksStartAtSmallestTimestamp ==
    agg.made =>
        LET times == OrderedTimes(tedges)
            o     == AggOrigins
            After(j) == {t \in Range(times) : t >= o[j] + agg.delta}
        IN  /\ times # <<>> => (Len(o) >= 1 /\ o[1] = times[1])
            /\ \A j \in 1..Len(o) :
                  IF j < Len(o)
                  THEN o[j + 1] \in After(j) /\ \A t \in After(j) : o[j + 1] <= t
                  ELSE After(j) = {}
            /\ \A j, k \in 1..Len(o) : ~(o[j] < o[k] /\ o[k] < o[j] + agg.delta)

\* C22: twoPathCount is never stale: after any sequence of addEdge and
\* twoPathCount calls, the count twoPathCount returns is the number of
\* two-paths of the current edges under the default delta, the flat list holds
\* exactly those two-paths, and the count is the length of that list
C22_TwoPathCountIsFresh ==
    last.op = "TwoPathCount" =>
        /\ twopaths = ExtractPaths(tedges, DefaultDelta)
        /\ tpcount = Len(ExtractPaths(tedges, DefaultDelta))
        /\ tpcount = Len(twopaths)

\* a count taken after an edge was added to a network that had been counted
\* before: the indices hold the two-paths of two extractions
C22_Witness ==
    /\ last.op = "TwoPathCount"
    /\ tpcount >= 1
    /\ IndexSize(twopathsByTime) > tpcount

\* the edges with every timestamp shifted by c
ShiftEdges(es, c) == [i \in 1..Len(es) |-> <<es[i][1], es[i][2], es[i][3] + c>>]

\* the shifts tried
Shifts == (0 - MaxShift)..MaxShift

SameMultiset(a, b) ==
    /\ Len(a) = Len(b)
    /\ \A x \in Range(a) \cup Range(b) :
          Cardinality({i \in 1..Len(a) : a[i] = x}) = Cardinality({i \in 1..Len(b) : b[i] = x})

\* C23: two-path extraction is invariant under time translation: the
\* two-paths extracted from the network are, as a multiset of (s, v, d, w),
\* those extracted with the same delta from the network with every timestamp
\* shifted by the same constant, whatever the sign of the timestamps
C23_TimeTranslationInvariant ==
    tpcount # 0 - 1 =>
        \A c \in Shifts :
            SameMultiset(twopaths, ExtractPaths(ShiftEdges(tedges, c), delta))

\* the sum of the weights of a list of two-paths, added as floats from the left
RECURSIVE FloatSum(_, _)
FloatSum(list, n) ==
    IF n = 1 THEN list[1][4] ELSE FAdd(FloatSum(list, n - 1), list[n][4])

\* C24 as stated: for every joined timestamp pair and every mid-node v with
\* incoming edges at the first and outgoing edges at the second timestamp, the
\* weights of the two-paths through v for that pair sum to exactly 1
C24_UnitMassPerMidNode ==
    tpcount # 0 - 1 =>
        \A key \in DOMAIN twopathsByTime :
            FloatSum(twopathsByTime[key], Len(twopathsByTime[key])) = FOne

\* C24 amended: there are indeg * outdeg two-paths through v for the pair, each
\* of weight float(1)/(indeg * outdeg); with every weight read as the
\* reciprocal it was computed from they sum to 1, and added as floats they give
\* 1.0 as long as indeg * outdeg <= 5
C24_UnitMassUpToRounding ==
    tpcount # 0 - 1 =>
        \A key \in DOMAIN twopathsByTime :
            LET list == twopathsByTime[key]
                n    == InDegree(tedges, key[2], PredTime(tedges, key[1]))
                        * OutDegree(tedges, key[2], key[1])
                sum  == ExactSum(list, 1..Len(list))
            IN  /\ Len(list) = n
                /\ \A i \in 1..n : list[i][2] = key[2] /\ list[i][4] = FRecip(n)
                /\ sum[1] = sum[2]
                /\ n <= 5 => FloatSum(list, n) = FOne

\* two incoming and three outgoing edges at one mid-node
C24_Witness ==
    /\ tpcount # 0 - 1
    /\ \E key \in DOMAIN twopathsByTime :
          /\ InDegree(tedges, key[2], PredTime(tedges, key[1])) = 2
          /\ OutDegree(tedges, key[2], key[1]) = 3
          /\ Len(twopathsByTime[key]) = 6

\* C25: for order 2 and delta 1, on a network with integer timestamps and
\* without self-loops, the k-path extractor and the two-path extractor agree:
\* the graph of order k = 2 built from the k-paths has the edges and the
\* weights of the second-order graph built from the two-paths, each weight
\* being the sum over the paths of one node triple (s, v, d)
C25_OrderTwoAgreesWithTwoPaths ==
    (agg.made /\ agg.k = 2 /\ agg.delta = 1 /\ tpcount # 0 - 1 /\ delta = 1) =>
        Range(KthOrderEdgeDict(agg.kpaths, agg.k, 1, <<>>))
            = Range(SecondOrderEdgeDict(twopaths, 1, <<>>))

====
